---- MODULE Spec2Model ----
(***************************************************************************)
(* Thermal Decay Simulator (src/main.py): a Tk application that evaluates  *)
(* Newton's law of cooling over np.linspace samples, plots the curve and   *)
(* exports the samples as CSV.                                             *)
(*                                                                         *)
(* Numbers.  The program computes in IEEE-754 binary floating point        *)
(* (Python float / np.float64).  The model keeps the IEEE semantics        *)
(* (round to nearest, ties to even; gradual underflow; overflow to an      *)
(* infinity; NaN) at a reduced width: a significand of P bits instead of   *)
(* 53.  A finite number is an integer count of quanta of 2^-FracBits (the  *)
(* smallest subnormal); the representable ones are m * 2^e with m < 2^P    *)
(* and 0 <= e <= EMax, so that 1.0 is the least normal number.  Signed     *)
(* zeros are not distinguished.                                            *)
(*                                                                         *)
(* Operators pass intermediate values as arguments rather than naming      *)
(* them in LET, which keeps TLC's coverage tree of the actions small.      *)
(***************************************************************************)
EXTENDS Integers, Sequences, FiniteSets, TLC

\* Significand width of the modelled binary floating-point format.
P == 11
\* Calls of load_next_example in a run.
MaxLoads == 5
\* Fields the user retypes between two loads of a scenario.
MaxEdits == 2
\* Data rows that reach the file before a write fails.
MaxPartial == 1
\* Largest sample count typed into the Points field when the computation
\* is examined on its own.
MaxN == 6

FracBits == P - 1
EMax == 27 - P
One == 2 ^ FracBits
MaxFinite == (2 ^ P - 1) * 2 ^ EMax

\* A float is an integer: the finite ones are their count of quanta, and two
\* codes beyond every finite magnitude stand for the infinities and NaN.
PosInf == 2 ^ 29
NegInf == -(2 ^ 29)
NaN == 2 ^ 30

IsNaN(x) == x = NaN
IsInf(x) == x = PosInf \/ x = NegInf
IsFin(x) == NegInf < x /\ x < PosInf

Abs(n) == IF n < 0 THEN -n ELSE n
Sgn(n) == IF n < 0 THEN -1 ELSE IF n > 0 THEN 1 ELSE 0
Neg(x) == IF x = NaN THEN x ELSE -x
Signed(s, x) == IF s < 0 /\ x # NaN THEN -x ELSE x

\* The binade of a magnitude n >= 0 given in quanta: the least e >= 0 with
\* n < 2^(P+e); the spacing of representable numbers around n is 2^e quanta.
RECURSIVE ExpOf(_, _)
ExpOf(n, e) == IF n < 2 ^ (P + e) THEN e ELSE ExpOf(n, e + 1)

Ulp(x) == 2 ^ ExpOf(Abs(x), 0)

\* base + lo (+ a rest below one quantum, nonzero iff sticky) rounded to a
\* multiple of the spacing sp > 1: to nearest, ties to the even multiple.
RoundPick(base, lo, sp, sticky) ==
    IF 2 * lo > sp \/ (2 * lo = sp /\ (sticky \/ (base \div sp) % 2 = 1))
      THEN base + sp
      ELSE base

Overflow(r) == IF r > MaxFinite THEN PosInf ELSE r

RoundBig(q, frac, sp) == Overflow(RoundPick(q - (q % sp), q % sp, sp, frac # 0))

\* The magnitude q + rest, q a count of quanta and the rest known as
\* frac = 0 (none), 1 (below 1/2), 2 (1/2), 3 (above 1/2), rounded to the
\* nearest representable magnitude, ties to even.
RoundMag(q, frac) ==
    IF q < 2 ^ P
      THEN (IF frac = 3 \/ (frac = 2 /\ q % 2 = 1) THEN q + 1 ELSE q)
      ELSE RoundBig(q, frac, 2 ^ ExpOf(q, 1))

FracOf(rem, den) ==
    IF rem = 0 THEN 0 ELSE IF 2 * rem < den THEN 1 ELSE IF 2 * rem = den THEN 2 ELSE 3

\* The rational num/den (den > 0) quanta rounded to the format.
RoundQ(num, den) ==
    Signed(num, RoundMag(Abs(num) \div den, FracOf(Abs(num) % den, den)))

\* m * 2^e with m odd (or 0): the significand and exponent of a magnitude.
RECURSIVE Reduce(_, _)
Reduce(m, e) == IF m # 0 /\ m % 2 = 0 THEN Reduce(m \div 2, e + 1) ELSE <<m, e>>

FAdd(x, y) ==
    IF x = NaN \/ y = NaN THEN NaN
    ELSE IF IsInf(x) THEN (IF IsInf(y) /\ x # y THEN NaN ELSE x)
    ELSE IF IsInf(y) THEN y
    ELSE RoundQ(x + y, 1)

FSub(x, y) == FAdd(x, Neg(y))

\* m * 2^e quanta, m > 0, with the sign s.
Scaled(m, e, s) ==
    IF e >= 0
      THEN (IF e > P + EMax \/ m >= 2 ^ (P + EMax + 1 - e) THEN Signed(s, PosInf)
            ELSE RoundQ(s * m * 2 ^ e, 1))
      ELSE IF -e > 2 * P + 2 THEN 0
      ELSE RoundQ(s * m, 2 ^ (-e))

MulParts(a, b, s) == Scaled(a[1] * b[1], a[2] + b[2] - FracBits, s)

\* x * y: the exact product, rounded once.
FMul(x, y) ==
    IF x = NaN \/ y = NaN THEN NaN
    ELSE IF x = 0 \/ y = 0 THEN (IF IsInf(x) \/ IsInf(y) THEN NaN ELSE 0)
    ELSE IF IsInf(x) \/ IsInf(y) THEN Signed(Sgn(x) * Sgn(y), PosInf)
    ELSE IF Abs(x) < 2 ^ 15 /\ Abs(y) < 2 ^ 15 THEN RoundQ(x * y, One)
    ELSE MulParts(Reduce(Abs(x), 0), Reduce(Abs(y), 0), Sgn(x) * Sgn(y))

DivParts(a, b, e, s) ==
    IF e >= 0 THEN RoundQ(s * a[1] * 2 ^ e, b[1]) ELSE RoundQ(s * a[1], b[1] * 2 ^ (-e))

DivReduced(a, b, s) == DivParts(a, b, a[2] - b[2] + FracBits, s)

\* x / y: the exact quotient, rounded once.  The callers keep a finite
\* quotient within the integer range (np.linspace divides by a sample count).
FDiv(x, y) ==
    IF x = NaN \/ y = NaN THEN NaN
    ELSE IF IsInf(x) THEN (IF IsInf(y) THEN NaN ELSE IF y < 0 THEN -x ELSE x)
    ELSE IF IsInf(y) THEN 0
    ELSE IF y = 0 THEN (IF x = 0 THEN NaN ELSE Signed(x, PosInf))
    ELSE DivReduced(Reduce(Abs(x), 0), Reduce(Abs(y), 0), Sgn(x) * Sgn(y))

\* IEEE comparisons: every comparison with a NaN is false; the codes of the
\* infinities order as the infinities do.
FLt(x, y) == x # NaN /\ y # NaN /\ x < y
FEq(x, y) == x # NaN /\ y # NaN /\ x = y
FLe(x, y) == x # NaN /\ y # NaN /\ x <= y

\* Integer division rounded to nearest (a >= 0, b > 0).
RDiv(a, b) == (2 * a + b) \div (2 * b)

\* e^-q in units of 2^-15, and e^q as <<m, e>> = m * 2^(e-14) with
\* 2^14 <= m < 2^15, for the integer part q of an argument.
ExpNegInt == <<32768, 12055, 4435, 1631, 600, 221, 81, 30, 11, 4, 1, 1, 0>>
ExpPosInt == << <<16384, 0>>, <<22268, 1>>, <<30266, 2>>, <<20568, 4>>,
                <<27954, 5>>, <<18997, 7>>, <<25819, 8>>, <<17546, 10>>,
                <<23848, 11>>, <<32412, 12>>, <<22026, 14>>, <<29937, 15>>,
                <<20344, 17>>, <<27651, 18>> >>

ExpScale == 2 ^ (30 - FracBits)

\* The Taylor series of e^(sgn*r) for the fraction r = rq/One in [0, 1), in
\* units of 1/ExpScale: term j is term j-1 times r / j.
RECURSIVE ExpSeries(_, _, _, _, _)
ExpSeries(rq, sgn, j, term, sum) ==
    IF term = 0 THEN sum
    ELSE ExpSeries(rq, sgn, j + 1, RDiv(term * rq, One * j),
                   IF sgn > 0 \/ j % 2 = 0
                     THEN sum + RDiv(term * rq, One * j)
                     ELSE sum - RDiv(term * rq, One * j))

ExpNeg(q, rq) ==
    IF q >= Len(ExpNegInt) THEN 0
    ELSE RoundQ(RDiv(ExpSeries(rq, -1, 1, ExpScale, ExpScale), ExpScale \div 2 ^ 15)
                  * ExpNegInt[q + 1], 2 ^ (30 - FracBits))

ExpPos(q, rq) ==
    IF q >= Len(ExpPosInt) THEN PosInf
    ELSE Scaled(RDiv(ExpSeries(rq, 1, 1, ExpScale, ExpScale), ExpScale \div 2 ^ 14)
                  * ExpPosInt[q + 1][1], ExpPosInt[q + 1][2] + FracBits - 28, 1)

\* np.exp on one element: the exponential rounded to the format, accurate to
\* under one unit in the last place and monotone.
Exp(x) ==
    IF x = NaN THEN NaN
    ELSE IF x = PosInf THEN PosInf
    ELSE IF x = NegInf THEN 0
    ELSE IF x <= 0 THEN ExpNeg((-x) \div One, (-x) % One)
    ELSE ExpPos(x \div One, x % One)


(***************************************************************************)
(* Text.  The content of an entry field, a formatted number or a CSV cell  *)
(* is modelled by what it denotes: a decimal literal d * 10^e (the digits  *)
(* and the exponent of "90.0", "0.07", "1e5"), "nan", "inf"/"-inf", or     *)
(* text that float() rejects ("", "abc").  Literals are kept with          *)
(* |d| < 10^6 and -8 <= e.                                                 *)
(***************************************************************************)
Dec(d, e) == [k |-> "dec", d |-> d, e |-> e]
TxtNaN == [k |-> "nan", d |-> 0, e |-> 0]
TxtInf == [k |-> "inf", d |-> 1, e |-> 0]
TxtNegInf == [k |-> "inf", d |-> -1, e |-> 0]
Junk == [k |-> "junk", d |-> 0, e |-> 0]
Empty == [k |-> "junk", d |-> 1, e |-> 0]

\* float(text) for text that float() accepts: the literal correctly rounded.
PyFloat(txt) ==
    IF txt.k = "nan" THEN NaN
    ELSE IF txt.k = "inf" THEN (IF txt.d > 0 THEN PosInf ELSE NegInf)
    ELSE IF txt.d = 0 THEN 0
    ELSE IF txt.e < 0 THEN RoundQ(txt.d * One, 10 ^ (-txt.e))
    ELSE IF txt.e > 9 \/ Abs(txt.d) > (2 ^ 30) \div (10 ^ txt.e)
           \/ Abs(txt.d) * 10 ^ txt.e > 2 * (MaxFinite \div One)
      THEN Signed(txt.d, PosInf)
    ELSE RoundQ(txt.d * 10 ^ txt.e * One, 1)

\* The literal with its trailing zeros moved into the exponent.
RECURSIVE Normal(_, _)
Normal(d, e) == IF d # 0 /\ d % 10 = 0 THEN Normal(d \div 10, e + 1)
                ELSE IF d = 0 THEN Dec(0, 0) ELSE Dec(d, e)

\* The magnitude mag (in quanta) to s decimal places, s possibly negative.
ToPlaces(mag, s) ==
    IF s >= 0 THEN RDiv(mag * 10 ^ s, One) ELSE RDiv(mag, One * 10 ^ (-s))

\* str(x) of a float (Python's repr, numpy's str of a float64): the decimal
\* literal with the fewest digits that float() reads back as x.  Shortest
\* tries s places; ShortestIs is given the digits d that s places yield.
RECURSIVE Shortest(_, _)
RECURSIVE ShortestIs(_, _, _)
ShortestIs(x, s, d) ==
    IF PyFloat(Dec(d, -s)) = x THEN Normal(d, -s) ELSE Shortest(x, s + 1)
Shortest(x, s) == ShortestIs(x, s, Sgn(x) * ToPlaces(Abs(x), s))

PyStr(x) ==
    IF x = NaN THEN TxtNaN
    ELSE IF x = PosInf THEN TxtInf
    ELSE IF x = NegInf THEN TxtNegInf
    ELSE IF x = 0 THEN Dec(0, 0)
    ELSE Shortest(x, -5)

\* format(x, ".2f"): x to two decimal places.
Fixed2(x) ==
    IF x = NaN THEN TxtNaN
    ELSE IF x = PosInf THEN TxtInf
    ELSE IF x = NegInf THEN TxtNegInf
    ELSE Dec(Sgn(x) * ((Abs(x) \div One) * 100 + RDiv((Abs(x) % One) * 100, One)), -2)

\* The integer n as a float (n < 2^P is exact), and str(n) of an int.
FromInt(n) == RoundQ(n * One, 1)
IntStr(n) == Normal(n, 0)

(***************************************************************************)
(* Results of a call that may raise.                                       *)
(***************************************************************************)
Ok(v) == [ok |-> TRUE, val |-> v]
Raise(msg, field, got) == [ok |-> FALSE, val |-> [msg |-> msg, field |-> field, got |-> got]]

\* validate_float(value, name)
validate_float(value, name) ==
    IF value.k = "junk" THEN Raise("must be a number. Got:", name, value)
    ELSE Ok(PyFloat(value))

\* int(x) of a float: truncation toward zero; NaN and the infinities raise.
PyInt(x) ==
    IF x = NaN THEN Raise("cannot convert float NaN to integer", "", Junk)
    ELSE IF IsInf(x) THEN Raise("cannot convert float infinity to integer", "", Junk)
    ELSE Ok(Sgn(x) * (Abs(x) \div One))

\* Sample i of np.linspace, before the shift by start: i * step, or
\* (i / div) * delta when the step underflowed to zero.
LinspaceAt(i, div, delta, step) ==
    IF FEq(step, 0)
      THEN FMul(FDiv(FromInt(i), div), delta)
      ELSE FMul(FromInt(i), step)

LinspaceBy(stop, num, div, delta, step) ==
    [j \in 1..num |-> IF j = num THEN stop
                      ELSE FAdd(LinspaceAt(j - 1, div, delta, step), 0)]

LinspaceOver(stop, num, div, delta) ==
    LinspaceBy(stop, num, div, delta, FDiv(delta, div))

\* np.linspace with endpoint=False: the step is stop / num.
linspace_open(stop, num) == LinspaceOver(stop, num, FromInt(num), FSub(stop, 0))

\* np.linspace(start, stop, num) for start = 0 and num >= 2 (endpoint=True).
linspace(stop, num) == LinspaceOver(stop, num, FromInt(num - 1), FSub(stop, 0))

\* T_env + d * np.exp(nk * t), element by element.
Decay(T_env, d, nk, t) ==
    [j \in 1..Len(t) |-> FAdd(T_env, FMul(d, Exp(FMul(nk, t[j]))))]

\* The law with the sign of the exponent lost: np.exp(k * t).
cooling_growth(T0, T_env, k, t) == Decay(T_env, FSub(T0, T_env), k, t)

\* T = T_env + (T0 - T_env) * np.exp(-k * t)
cooling(T0, T_env, k, t) == Decay(T_env, FSub(T0, T_env), Neg(k), t)


(***************************************************************************)
(* The program.                                                            *)
(***************************************************************************)
\* The scenarios with a sample count of 1 in the second one.
EXAMPLES_OnePoint == <<
    [name |-> "Hot Coffee in Room", T0 |-> PyFloat(Dec(900, -1)),
     T_env |-> PyFloat(Dec(250, -1)), k |-> PyFloat(Dec(7, -2)),
     t_max |-> PyFloat(Dec(600, -1)), points |-> 100],
    [name |-> "Iced Tea Warming Up", T0 |-> PyFloat(Dec(40, -1)),
     T_env |-> PyFloat(Dec(300, -1)), k |-> PyFloat(Dec(5, -2)),
     t_max |-> PyFloat(Dec(1200, -1)), points |-> 1],
    [name |-> "Forensic: Body Cooling", T0 |-> PyFloat(Dec(370, -1)),
     T_env |-> PyFloat(Dec(150, -1)), k |-> PyFloat(Dec(3, -2)),
     t_max |-> PyFloat(Dec(1800, -1)), points |-> 200],
    [name |-> "Metal Quenching", T0 |-> PyFloat(Dec(8000, -1)),
     T_env |-> PyFloat(Dec(200, -1)), k |-> PyFloat(Dec(2, -1)),
     t_max |-> PyFloat(Dec(300, -1)), points |-> 200] >>

EXAMPLES == <<
    [name |-> "Hot Coffee in Room", T0 |-> PyFloat(Dec(900, -1)),
     T_env |-> PyFloat(Dec(250, -1)), k |-> PyFloat(Dec(7, -2)),
     t_max |-> PyFloat(Dec(600, -1)), points |-> 100],
    [name |-> "Iced Tea Warming Up", T0 |-> PyFloat(Dec(40, -1)),
     T_env |-> PyFloat(Dec(300, -1)), k |-> PyFloat(Dec(5, -2)),
     t_max |-> PyFloat(Dec(1200, -1)), points |-> 100],
    [name |-> "Forensic: Body Cooling", T0 |-> PyFloat(Dec(370, -1)),
     T_env |-> PyFloat(Dec(150, -1)), k |-> PyFloat(Dec(3, -2)),
     t_max |-> PyFloat(Dec(1800, -1)), points |-> 200],
    [name |-> "Metal Quenching", T0 |-> PyFloat(Dec(8000, -1)),
     T_env |-> PyFloat(Dec(200, -1)), k |-> PyFloat(Dec(2, -1)),
     t_max |-> PyFloat(Dec(300, -1)), points |-> 200] >>

VARIABLES
    entry_T0, entry_Tenv, entry_k, entry_tmax, entry_npts,  \* text of the five Entry widgets
    app_state,              \* the dict of the last result: keys "t", "T"
    formula_text,           \* the StringVar shown under "Model:"
    status_label,           \* text of the status bar
    canvas,                 \* the curve drawn on the figure
    current_example_index,
    pc,                     \* "init": line 250 not yet run; "mainloop": in root.mainloop()
    last,                   \* history: the handler that ran last, its outcome, the file it wrote
    stored,                 \* history: what the last compute that succeeded computed
    nloads,                 \* history: calls of load_next_example so far
    nedits                  \* history: fields typed into since the last load_next_example

widgets == <<entry_T0, entry_Tenv, entry_k, entry_tmax, entry_npts>>
vars == <<entry_T0, entry_Tenv, entry_k, entry_tmax, entry_npts, app_state,
          formula_text, status_label, canvas, current_example_index, pc, last,
          stored, nloads, nedits>>

NoFile == [written |-> FALSE, header |-> <<>>, rows |-> <<>>]
Did(op, result) == [op |-> op, result |-> result, path |-> <<>>, file |-> NoFile]

Status(kind, arg) == [k |-> kind, arg |-> arg]
NoArg == [msg |-> "", field |-> "", got |-> Junk]
Named(name) == [msg |-> name, field |-> "", got |-> Junk]

EmptyDict == [key \in {} |-> <<>>]
Blank == [drawn |-> FALSE, t |-> <<>>, T |-> <<>>, base |-> 0]
NoFormula == [k |-> "Formula will appear here", T_env |-> Junk, diff |-> Junk, rate |-> Junk]

\* The state after line 247: widgets built and empty, nothing computed.
Init ==
    /\ entry_T0 = Empty /\ entry_Tenv = Empty /\ entry_k = Empty
    /\ entry_tmax = Empty /\ entry_npts = Empty
    /\ app_state = EmptyDict
    /\ formula_text = NoFormula
    /\ status_label = Status("Ready", NoArg)
    /\ canvas = Blank
    /\ current_example_index = 0
    /\ pc = "init"
    /\ last = Did("construct", "ok")
    /\ stored = <<>>
    /\ nloads = 0
    /\ nedits = 0

\* The range checks with one more: a decay constant that is not positive
\* is refused.
CheckRangesPositiveK(T0, T_env, k, t_max, n) ==
    IF ~n.ok THEN n
    ELSE IF n.val < 2 THEN Raise("Points must be > 1", "", Junk)
    ELSE IF FLe(t_max, 0) THEN Raise("Max time must be positive", "", Junk)
    ELSE IF FLe(k, 0) THEN Raise("k must be positive", "", Junk)
    ELSE Ok([T0 |-> T0, T_env |-> T_env, k |-> k, t_max |-> t_max, npts |-> n.val])

\* Lines 91-92: the two range checks, after int() of the Points value.
CheckRanges(T0, T_env, k, t_max, n) ==
    IF ~n.ok THEN n
    ELSE IF n.val < 2 THEN Raise("Points must be > 1", "", Junk)
    ELSE IF FLe(t_max, 0) THEN Raise("Max time must be positive", "", Junk)
    ELSE Ok([T0 |-> T0, T_env |-> T_env, k |-> k, t_max |-> t_max, npts |-> n.val])

\* Lines 85-89 in order: the first conversion that raises ends the try block.
Converted(r0, r1, r2, r3, r4) ==
    IF ~r0.ok THEN r0
    ELSE IF ~r1.ok THEN r1
    ELSE IF ~r2.ok THEN r2
    ELSE IF ~r3.ok THEN r3
    ELSE IF ~r4.ok THEN r4
    ELSE CheckRanges(r0.val, r1.val, r2.val, r3.val, PyInt(r4.val))

\* Lines 85-92: the five conversions and the two range checks.
ReadInputs(e_T0, e_Tenv, e_k, e_tmax, e_npts) ==
    Converted(validate_float(e_T0, "T0"), validate_float(e_Tenv, "T_env"),
              validate_float(e_k, "k"), validate_float(e_tmax, "t_max"),
              validate_float(e_npts, "Points"))

\* An except branch that also empties the store.
RejectedClearing(g, err) ==
    [g EXCEPT !.status_label = Status("Error", err), !.outcome = "rejected",
              !.app_state = EmptyDict]

\* Lines 94-96: the except branch; g is the GUI state the handler found.
Rejected(g, err) ==
    [g EXCEPT !.status_label = Status("Error", err), !.outcome = "rejected"]

\* Line 100 on the samples t of line 99.
EvaluateAt(in, t) == [t |-> t, T |-> cooling(in.T0, in.T_env, in.k, t)]

\* Lines 99-100.
Evaluate(in) == EvaluateAt(in, linspace(in.t_max, in.npts))

\* The inputs the scenarios denote, alone or with a typed T0 in their place,
\* and their samples: TLC evaluates a table of constants once, so that the
\* long sample sequences are not computed again in every state.
Tabled ==
    {[T0 |-> T0, T_env |-> sc.T_env, k |-> sc.k, t_max |-> sc.t_max, npts |-> sc.points] :
        sc \in {EXAMPLES[j] : j \in 1..Len(EXAMPLES)},
        T0 \in {EXAMPLES[j].T0 : j \in 1..Len(EXAMPLES)} \cup {PyFloat(Dec(5, 0))}}
EvaluateTable == [in \in Tabled |-> Evaluate(in)]
Samples(in) == IF in \in Tabled THEN EvaluateTable[in] ELSE Evaluate(in)

\* Lines 102-131: the plot, the formula, the status, the store.
Computed(g, in, s) ==
    [g EXCEPT
        !.canvas = [drawn |-> TRUE, t |-> s.t, T |-> s.T, base |-> in.T_env],
        !.formula_text = [k |-> "T(t) =", T_env |-> PyStr(in.T_env),
                          diff |-> Fixed2(FSub(in.T0, in.T_env)),
                          rate |-> PyStr(in.k)],
        !.status_label = Status("Calculation complete.", NoArg),
        !.app_state = [key \in DOMAIN g.app_state \cup {"t", "T"} |->
                          IF key = "t" THEN s.t ELSE s.T],
        !.stored = s,
        !.outcome = "ok"]

\* Lines 84-131 once the try block has ended with r.
Handled(g, r) ==
    IF r.ok THEN Computed(g, r.val, Samples(r.val)) ELSE Rejected(g, r.val)

\* compute_and_plot() on the GUI state g with the entry texts e.
compute_and_plot(g, e) == Handled(g, ReadInputs(e[1], e[2], e[3], e[4], e[5]))

Gui == [app_state |-> app_state, formula_text |-> formula_text,
        status_label |-> status_label, canvas |-> canvas, stored |-> stored,
        outcome |-> ""]

Put(g) ==
    /\ app_state' = g.app_state
    /\ formula_text' = g.formula_text
    /\ status_label' = g.status_label
    /\ canvas' = g.canvas
    /\ stored' = g.stored

PutAs(op, g) == Put(g) /\ last' = Did(op, g.outcome)

\* The COMPUTE GRAPH button.
ComputeAndPlot ==
    /\ pc = "mainloop"
    /\ PutAs("compute_and_plot", compute_and_plot(Gui, widgets))
    /\ UNCHANGED <<entry_T0, entry_Tenv, entry_k, entry_tmax, entry_npts,
                   current_example_index, pc, nloads, nedits>>

\* Lines 159-163: the texts load_next_example puts in the five entries.
ScenarioTexts(scenario) ==
    <<PyStr(scenario.T0), PyStr(scenario.T_env), PyStr(scenario.k),
      PyStr(scenario.t_max), IntStr(scenario.points)>>

\* An index that advances by two.
NextIndexSkipping(i) == (i + 2) % Len(EXAMPLES)

\* Line 172.
NextIndex(i) == (i + 1) % Len(EXAMPLES)

\* Line 166.
Noted(g, name) == [g EXCEPT !.status_label = Status("Loaded Topic:", Named(name))]

\* Lines 159-172 with the texts e of the scenario.
LoadTexts(name, e) ==
    /\ entry_T0' = e[1] /\ entry_Tenv' = e[2] /\ entry_k' = e[3]
    /\ entry_tmax' = e[4] /\ entry_npts' = e[5]
    /\ PutAs("load_next_example", compute_and_plot(Noted(Gui, name), e))
    /\ current_example_index' = NextIndex(current_example_index)

LoadScenario(scenario) == LoadTexts(scenario.name, ScenarioTexts(scenario))

\* load_next_example(), lines 151-172.
load_next_example == LoadScenario(EXAMPLES[current_example_index + 1])

\* The NEXT SCENARIO button.
LoadNextExample ==
    /\ pc = "mainloop"
    /\ nloads < MaxLoads
    /\ load_next_example
    /\ nloads' = nloads + 1
    /\ nedits' = 0
    /\ pc' = pc

\* Line 250: the call made before the main loop starts.
Startup ==
    /\ pc = "init"
    /\ load_next_example
    /\ nloads' = nloads + 1
    /\ nedits' = 0
    /\ pc' = "mainloop"

\* A writer that leaves out the last pair.
WriteRowsButLast(t, T) ==
    [j \in 1..((IF Len(t) < Len(T) THEN Len(t) ELSE Len(T)) - 1) |-> <<PyStr(t[j]), PyStr(T[j])>>]

\* Lines 145-146: one row per pair of zip(app_state["t"], app_state["T"]),
\* each cell written as str() of the number.
WriteRows(t, T) ==
    [j \in 1..(IF Len(t) < Len(T) THEN Len(t) ELSE Len(T)) |-> <<PyStr(t[j]), PyStr(T[j])>>]

\* The rows of the tabled samples, evaluated once like the samples.
WriteRowsTable == [s \in {EvaluateTable[in] : in \in Tabled} |-> WriteRows(s.t, s.T)]
RowsOf(s) == IF s \in DOMAIN WriteRowsTable THEN WriteRowsTable[s] ELSE WriteRows(s.t, s.T)
CsvRows(t, T) == RowsOf([t |-> t, T |-> T])

CsvHeader == <<"t", "T(t)">>

\* Line 147: path.split('/')[-1]
BaseName(path) == path[Len(path)]

\* The files the save dialog can name, as path components; <<>> is a
\* cancelled dialog.
Paths == {<<"home", "data", "run.csv">>}

\* Lines 134-136: nothing stored yet.
SaveNoData(g) == [g EXCEPT !.status_label = Status("Run calculation first!", NoArg)]

\* Line 147: the file is written and closed.
Saved(g, path) == [g EXCEPT !.status_label = Status("Saved to", Named(BaseName(path)))]

\* An except branch that also empties the store.
SaveFailedClearing(g, e) ==
    [g EXCEPT !.status_label = Status("Save Error:", Named(e)), !.app_state = EmptyDict]

\* Lines 148-149: open() or a write raised.
SaveFailed(g, e) == [g EXCEPT !.status_label = Status("Save Error:", Named(e))]

Wrote(result, path, rows) ==
    [op |-> "save_csv", result |-> result, path |-> path,
     file |-> [written |-> TRUE, header |-> CsvHeader, rows |-> rows]]

\* Lines 142-149 for the chosen path: open() may fail, and a write may fail
\* after the header and some rows.
SaveTo(path, rows) ==
    \/ /\ Put(Saved(Gui, path))
       /\ last' = Wrote("saved", path, rows)
    \/ /\ Put(SaveFailed(Gui, "open"))
       /\ last' = [Did("save_csv", "open failed") EXCEPT !.path = path]
    \/ \E n \in 0..MaxPartial :
         /\ n < Len(rows)
         /\ Put(SaveFailed(Gui, "write"))
         /\ last' = Wrote("write failed", path, SubSeq(rows, 1, n))

\* The SAVE TO CSV button: save_csv(), lines 133-149.  The dialog returns a
\* path or nothing.
SaveCsv ==
    /\ pc = "mainloop"
    /\ IF "t" \notin DOMAIN app_state
         THEN Put(SaveNoData(Gui)) /\ last' = Did("save_csv", "no data")
         ELSE \E path \in Paths \cup {<<>>} :
                IF path = <<>>
                  THEN Put(Gui) /\ last' = Did("save_csv", "cancelled")
                  ELSE SaveTo(path, CsvRows(app_state["t"], app_state["T"]))
    /\ UNCHANGED <<entry_T0, entry_Tenv, entry_k, entry_tmax, entry_npts,
                   current_example_index, pc, nloads, nedits>>

\* What the user types into the entries between two button presses.
Typed == <<
    {Junk, Dec(5, 0)},
    {Empty},
    {Junk},
    {Junk, Dec(0, 0)},
    {Junk, Dec(1, 0), Dec(3, 0)} >>

UserTypes ==
    /\ pc = "mainloop"
    /\ nedits < MaxEdits
    /\ \E f \in 1..5 : \E txt \in Typed[f] :
         /\ entry_T0' = IF f = 1 THEN txt ELSE entry_T0
         /\ entry_Tenv' = IF f = 2 THEN txt ELSE entry_Tenv
         /\ entry_k' = IF f = 3 THEN txt ELSE entry_k
         /\ entry_tmax' = IF f = 4 THEN txt ELSE entry_tmax
         /\ entry_npts' = IF f = 5 THEN txt ELSE entry_npts
    /\ nedits' = nedits + 1
    /\ last' = Did("type", "ok")
    /\ UNCHANGED <<app_state, formula_text, status_label, canvas,
                   current_example_index, pc, stored, nloads>>

Next == Startup \/ ComputeAndPlot \/ SaveCsv \/ LoadNextExample \/ UserTypes

Spec == Init /\ [][Next]_vars

(***************************************************************************)
(* The computation on its own: the program as line 250 leaves it, with     *)
(* any text of the sets below typed into the five entries, and the         *)
(* COMPUTE GRAPH button.  The texts cover the preconditions (junk, zero    *)
(* and negative values, sample counts around 2, a fractional count, "nan"  *)
(* and "inf") and the ranges of the arithmetic: values below the least     *)
(* normal number 1.0, a difference T0 - T_env that is exact, one that is   *)
(* rounded and one that overflows, and arguments of exp that underflow.    *)
(***************************************************************************)
EvalT0 == {Dec(90, 0), Dec(25, 0), Dec(1, -1), Dec(1, 5), TxtInf, Junk}
EvalTenv == {Dec(25, 0), Dec(90, 0), Dec(1, 5), Dec(-1, 5), Empty}
EvalK == {Dec(0, 0), Dec(7, -2), Dec(1, 0), Dec(1, 2), Dec(-1, 0), Junk}
EvalTmax == {Dec(60, 0), Dec(1, 3), Dec(1, -3), Dec(3, -3), Dec(0, 0), Dec(-5, 0),
             TxtInf, TxtNaN, Junk}
EvalPoints == {Dec(n, 0) : n \in 0..MaxN} \cup {Dec(29, -1), TxtNaN, TxtInf, Junk}

\* The GUI as line 247 leaves it.
Built == [app_state |-> EmptyDict, formula_text |-> NoFormula,
          status_label |-> Status("Ready", NoArg), canvas |-> Blank,
          stored |-> <<>>, outcome |-> ""]

\* The program in its main loop with g on display and typed entries.
InitWith(g) ==
    /\ app_state = g.app_state
    /\ formula_text = g.formula_text
    /\ status_label = g.status_label
    /\ canvas = g.canvas
    /\ stored = g.stored
    /\ current_example_index = NextIndex(0)
    /\ pc = "mainloop"
    /\ last = Did("type", "ok")
    /\ nloads = 1
    /\ nedits = 0
    /\ entry_T0 \in EvalT0
    /\ entry_Tenv \in EvalTenv
    /\ entry_k \in EvalK
    /\ entry_tmax \in EvalTmax
    /\ entry_npts \in EvalPoints

InitEval ==
    InitWith(compute_and_plot(Noted(Built, EXAMPLES[1].name), ScenarioTexts(EXAMPLES[1])))

NextEval == ComputeAndPlot

SpecEval == InitEval /\ [][NextEval]_vars

(***************************************************************************)
(* Properties.  Read is what float() makes of the four real-valued         *)
(* entries and Count what int(float()) makes of the Points entry; after a  *)
(* compute they are the inputs it ran on, since compute_and_plot leaves    *)
(* the entries alone.                                                      *)
(***************************************************************************)
Read == [T0 |-> PyFloat(entry_T0), T_env |-> PyFloat(entry_Tenv),
         k |-> PyFloat(entry_k), t_max |-> PyFloat(entry_tmax)]
Count == PyInt(PyFloat(entry_npts))

Succeeded == last.op = "compute_and_plot" /\ last.result = "ok"

\* The step t_max / (n - 1) of the time axis is at least the least normal
\* number of the format (1.0 here, 2.2e-308 in binary64).
StepNormal == Read.t_max >= (Count.val - 1) * One

\* The entries hold an invalid input: a field that is no number, Points
\* below 2 after int(), or t_max <= 0.
C1_InvalidInput ==
    \/ \E f \in 1..5 : widgets[f].k = "junk"
    \/ entry_npts.k = "dec" /\ Count.val < 2
    \/ entry_tmax.k = "dec" /\ Read.t_max <= 0

\* C1: a compute_and_plot on invalid input is aborted: app_state, the
\* formula text, the plot, the entries and the preset index are after the
\* call what they were before it, and only the status bar changes, to an
\* error message; on every step of every run of compute, export,
\* next-scenario and typing actions.
C1_AbortKeepsResult ==
    [][(last'.op = "compute_and_plot" /\ C1_InvalidInput) =>
          /\ last'.result = "rejected"
          /\ status_label'.k = "Error"
          /\ app_state' = app_state
          /\ formula_text' = formula_text
          /\ canvas' = canvas
          /\ current_example_index' = current_example_index
          /\ widgets' = widgets]_vars

\* A compute was rejected while the three samples of an earlier compute on
\* typed input were stored, and they still are.
C1_Witness ==
    /\ last.op = "compute_and_plot" /\ last.result = "rejected"
    /\ status_label.k = "Error"
    /\ "t" \in DOMAIN app_state /\ Len(app_state["t"]) = 3
    /\ C1_InvalidInput

\* What the message of a rejection has to name: the first field that is no
\* number, in the order T0, T_env, k, t_max, Points, or else the constraint.
C2_FirstFailing ==
    IF entry_T0.k = "junk" THEN "T0"
    ELSE IF entry_Tenv.k = "junk" THEN "T_env"
    ELSE IF entry_k.k = "junk" THEN "k"
    ELSE IF entry_tmax.k = "junk" THEN "t_max"
    ELSE IF entry_npts.k # "dec" THEN "Points"
    ELSE IF Count.val < 2 THEN "Points must be > 1"
    ELSE "Max time must be positive"
\* A precondition is violated: a field is no number, or there is no sample
\* count of at least 2, or t_max is not positive.
C2_Violated ==
    \/ \E f \in 1..5 : widgets[f].k = "junk"
    \/ entry_npts.k # "dec"
    \/ Count.val < 2
    \/ ~FLt(0, Read.t_max)
\* C2 as the specification states it: compute_and_plot is rejected exactly
\* when a field is no number, or the sample count is below 2, or t_max is
\* not positive; the message names the first failing field or else the
\* failed constraint; in every other case a new result is stored.  The
\* program does not satisfy it: "nan" as Max Time is not positive and is
\* accepted, and "nan" or "inf" as Points is reported by int()'s own
\* message, which names no field.
C2_RejectedIffViolated ==
    last.op = "compute_and_plot" =>
        /\ (last.result = "rejected") <=> C2_Violated
        /\ last.result = "rejected" =>
             /\ status_label.k = "Error"
             /\ C2_FirstFailing \in {status_label.arg.field, status_label.arg.msg}
        /\ last.result = "ok" =>
             /\ status_label.k = "Calculation complete."
             /\ Len(app_state["t"]) = Count.val

\* The five entries hold the values of the scenario sc.
C3_Loaded(sc) ==
    /\ PyFloat(entry_T0) = sc.T0 /\ PyFloat(entry_Tenv) = sc.T_env
    /\ PyFloat(entry_k) = sc.k /\ PyFloat(entry_tmax) = sc.t_max
    /\ Count = Ok(sc.points)

\* C3: the j-th call of load_next_example (the first is line 250) puts
\* EXAMPLES[(j-1) mod 4] into the five entries; every call advances
\* current_example_index by one modulo 4 and no other action changes it;
\* the index is always in 0..3.
C3_RoundRobin ==
    /\ [](/\ current_example_index \in 0..3
          /\ current_example_index = nloads % 4
          /\ last.op = "load_next_example" => C3_Loaded(EXAMPLES[((nloads - 1) % 4) + 1]))
    /\ [][/\ nloads' = nloads + 1 =>
               current_example_index' = (current_example_index + 1) % 4
          /\ nloads' = nloads => current_example_index' = current_example_index]_vars

\* The fifth call has wrapped around: "90.0", "25.0", "0.07", "60.0", "100"
\* are back in the entries and the index is 1.
C3_Witness ==
    /\ nloads = 5 /\ last.op = "load_next_example"
    /\ current_example_index = 1
    /\ entry_T0 = Dec(9, 1) /\ entry_Tenv = Dec(25, 0) /\ entry_k = Dec(7, -2)
    /\ entry_tmax = Dec(6, 1) /\ entry_npts = Dec(1, 2)

\* C4 (amended): a successful compute stores n times and n temperatures;
\* for finite t_max, t_0 = 0 and t_{n-1} = t_max exactly; and when the step
\* t_max / (n - 1) is a normal number the times are strictly increasing and
\* each t_i is within two units in the last place of t_max of
\* t_max * i / (n - 1).
C4_TimeAxis ==
    Succeeded =>
        /\ Len(app_state["t"]) = Count.val
        /\ Len(app_state["T"]) = Count.val
        /\ IsFin(Read.t_max) =>
             /\ app_state["t"][1] = 0
             /\ app_state["t"][Count.val] = Read.t_max
             /\ StepNormal =>
                  /\ \A i \in 1..(Count.val - 1) :
                         app_state["t"][i] < app_state["t"][i + 1]
                  /\ \A i \in 1..Count.val :
                         Abs(app_state["t"][i] * (Count.val - 1) - Read.t_max * (i - 1))
                            < 2 * Ulp(Read.t_max) * (Count.val - 1)

\* Max Time 60 with 4 points: the times 0, 20, 40, 60.
C4_Witness ==
    /\ Succeeded
    /\ entry_tmax = Dec(60, 0) /\ entry_npts = Dec(4, 0)
    /\ app_state["t"] = <<0, 20 * One, 40 * One, 60 * One>>
    /\ Len(app_state["T"]) = 4

\* C4 as the specification states it: for every valid input (n >= 2,
\* t_max > 0) the stored times are n values from 0 to t_max, strictly
\* increasing.
C4_StrictlyIncreasing ==
    Succeeded =>
        /\ Len(app_state["t"]) = Count.val
        /\ Len(app_state["T"]) = Count.val
        /\ FEq(app_state["t"][1], 0)
        /\ FEq(app_state["t"][Count.val], Read.t_max)
        /\ \A i \in 1..(Count.val - 1) : FLt(app_state["t"][i], app_state["t"][i + 1])

\* compute_and_plot has run on k = 0, numbers as T0 and T_env, a positive
\* t_max and n >= 2.
C5_ValidWithZeroK ==
    /\ last.op = "compute_and_plot"
    /\ entry_k.k = "dec" /\ Read.k = 0
    /\ entry_T0.k # "junk" /\ entry_Tenv.k # "junk"
    /\ entry_tmax.k # "junk" /\ FLt(0, Read.t_max)
    /\ entry_npts.k = "dec" /\ Count.val >= 2
\* C5 (amended): k = 0 is accepted: with it, any numbers as T0 and T_env, a
\* positive t_max and n >= 2, compute_and_plot succeeds.  When T0, T_env,
\* their difference and t_max are finite, every T_i is the same number
\* T_env + (T0 - T_env): within two units in the last place of the larger
\* of |T0| and |T_env| of T0, and T0 itself when T0 - T_env is computed
\* exactly.
C5_ZeroDecay ==
    C5_ValidWithZeroK =>
        /\ last.result = "ok"
        /\ (IsFin(Read.T0) /\ IsFin(Read.T_env) /\ IsFin(Read.t_max)
              /\ IsFin(FSub(Read.T0, Read.T_env))) =>
             \A i \in 1..Len(app_state["T"]) :
                 /\ app_state["T"][i] = app_state["T"][1]
                 /\ Abs(app_state["T"][i] - Read.T0)
                      <= 2 * Ulp(IF Abs(Read.T0) > Abs(Read.T_env) THEN Read.T0 ELSE Read.T_env)
                 /\ RoundQ(Read.T0 - Read.T_env, 1) = Read.T0 - Read.T_env =>
                      app_state["T"][i] = Read.T0

\* k = 0 with T0 = 90, T_env = 25 and four points: 90 four times.
C5_Witness ==
    /\ C5_ValidWithZeroK /\ last.result = "ok"
    /\ entry_T0 = Dec(90, 0) /\ entry_Tenv = Dec(25, 0) /\ entry_npts = Dec(4, 0)
    /\ app_state["T"] = <<90 * One, 90 * One, 90 * One, 90 * One>>

\* C5 as the specification states it: with k = 0 every T_i equals T0, for
\* every T0 and T_env.
C5_ConstantAtT0 ==
    C5_ValidWithZeroK =>
        /\ last.result = "ok"
        /\ \A i \in 1..Len(app_state["T"]) : FEq(app_state["T"][i], Read.T0)

\* A compute succeeded on finite T0, T_env, k and t_max with a finite
\* difference T0 - T_env.
C6_AllFinite ==
    /\ Succeeded
    /\ IsFin(Read.T0) /\ IsFin(Read.T_env) /\ IsFin(Read.k) /\ IsFin(Read.t_max)
    /\ IsFin(FSub(Read.T0, Read.T_env))
\* C6 (amended): with finite T0, T_env, k and t_max and a finite difference
\* T0 - T_env: if T0 = T_env and k >= 0 every T_i equals T_env; if k > 0
\* and the step of the time axis is a normal number, the T_i never increase
\* when T0 > T_env and never decrease when T0 < T_env.
C6_Monotone ==
    C6_AllFinite =>
        /\ (Read.T0 = Read.T_env /\ Read.k >= 0) =>
             \A i \in 1..Len(app_state["T"]) : app_state["T"][i] = Read.T_env
        /\ (Read.k > 0 /\ StepNormal /\ Read.T0 > Read.T_env) =>
             \A i \in 1..(Len(app_state["T"]) - 1) :
                 /\ IsFin(app_state["T"][i + 1])
                 /\ app_state["T"][i + 1] <= app_state["T"][i]
        /\ (Read.k > 0 /\ StepNormal /\ Read.T0 < Read.T_env) =>
             \A i \in 1..(Len(app_state["T"]) - 1) :
                 /\ IsFin(app_state["T"][i + 1])
                 /\ app_state["T"][i + 1] >= app_state["T"][i]

\* Cooling from 90 to 25 at k = 0.07 over 60 in four points: each sample is
\* below the one before and above the environment.
C6_Witness ==
    /\ C6_AllFinite
    /\ entry_T0 = Dec(90, 0) /\ entry_Tenv = Dec(25, 0) /\ entry_k = Dec(7, -2)
    /\ entry_tmax = Dec(60, 0) /\ entry_npts = Dec(4, 0)
    /\ app_state["T"][1] = 90 * One
    /\ \A i \in 1..3 : app_state["T"][i + 1] < app_state["T"][i]
    /\ app_state["T"][4] > 25 * One

\* C6 as the specification states it: strictly decreasing for k > 0 and
\* T0 > T_env, strictly increasing for k > 0 and T0 < T_env, and constant
\* at T_env for T0 = T_env and any k.
C6_StrictlyMonotone ==
    Succeeded =>
        /\ FEq(Read.T0, Read.T_env) =>
             \A i \in 1..Len(app_state["T"]) : FEq(app_state["T"][i], Read.T_env)
        /\ (FLt(0, Read.k) /\ FLt(Read.T_env, Read.T0)) =>
             \A i \in 1..(Len(app_state["T"]) - 1) :
                 FLt(app_state["T"][i + 1], app_state["T"][i])
        /\ (FLt(0, Read.k) /\ FLt(Read.T0, Read.T_env)) =>
             \A i \in 1..(Len(app_state["T"]) - 1) :
                 FLt(app_state["T"][i], app_state["T"][i + 1])

\* C7: a save_csv that succeeds has written the header t, T(t) and then
\* one two-cell row per sample pair of the last compute that succeeded, in
\* order and nothing more; float() of the cells gives back the stored pairs,
\* whatever was typed or rejected since.
C7_FileIsLastResult ==
    last.result = "saved" =>
        /\ last.file.written
        /\ last.file.header = <<"t", "T(t)">>
        /\ Len(last.file.rows) = Len(stored.t)
        /\ Len(last.file.rows) = Len(stored.T)
        /\ \A j \in 1..Len(last.file.rows) :
               /\ Len(last.file.rows[j]) = 2
               /\ PyFloat(last.file.rows[j][1]) = stored.t[j]
               /\ PyFloat(last.file.rows[j][2]) = stored.T[j]
        /\ app_state["t"] = stored.t /\ app_state["T"] = stored.T

\* Three samples were computed from typed input, the Initial Temp entry was
\* then overwritten with junk, and the file holds the three samples.
C7_Witness ==
    /\ last.result = "saved"
    /\ Len(last.file.rows) = 3
    /\ entry_T0 = Junk
    /\ status_label = Status("Saved to", Named("run.csv"))

\* C8: save_csv, whatever its outcome (no result, dialog cancelled, file
\* written, open() or a write failed), leaves app_state, the formula text,
\* the plot, the entries and the preset index as they were; a failure shows
\* in the status bar only, and the main loop goes on.
C8_SaveKeepsResult ==
    [][last'.op = "save_csv" =>
          /\ app_state' = app_state
          /\ formula_text' = formula_text
          /\ canvas' = canvas
          /\ widgets' = widgets
          /\ current_example_index' = current_example_index
          /\ pc' = "mainloop"
          /\ last'.result \in {"open failed", "write failed"} =>
               status_label'.k = "Save Error:"]_vars

\* A write failed after the header and one row, and the result is still there.
C8_Witness ==
    /\ last.op = "save_csv" /\ last.result = "write failed"
    /\ Len(last.file.rows) = 1
    /\ status_label.k = "Save Error:"
    /\ Len(app_state["t"]) = 100

\* C9 as the claim states it: when load_next_example has returned, the
\* status bar shows "Loaded Topic:" with the name of the scenario it put
\* into the entries.  The program does not satisfy it: the compute_and_plot
\* call of line 169 replaces the message of line 166.
C9_LoadedTopicShown ==
    last.op = "load_next_example" =>
        status_label = Status("Loaded Topic:", Named(EXAMPLES[((nloads - 1) % 4) + 1].name))

\* C10: once line 250 has run, app_state holds "t" and "T" of equal length
\* >= 2; save_csv never finds the store empty; and every load_next_example
\* ends with a compute that succeeded.
C10_ResultExists ==
    /\ pc = "mainloop" =>
         /\ {"t", "T"} \subseteq DOMAIN app_state
         /\ Len(app_state["t"]) = Len(app_state["T"])
         /\ Len(app_state["t"]) >= 2
    /\ last.result # "no data"
    /\ status_label.k # "Run calculation first!"
    /\ last.op = "load_next_example" =>
         /\ last.result = "ok"
         /\ status_label.k = "Calculation complete."

\* The file is written straight after line 250, from the result of preset 0.
C10_Witness ==
    /\ pc = "mainloop" /\ nloads = 1 /\ nedits = 0
    /\ last.op = "save_csv" /\ last.result = "saved"
    /\ Len(last.file.rows) = 100
====
